---- MODULE Spec2Model ----
(***************************************************************************)
(* Model of the suggestion engine of app.py: Node / Trie / ReversedTrie /  *)
(* Suggester and the /suggest/ endpoint.                                   *)
(*                                                                         *)
(* A string is a sequence of code points (32 = ' ', 59 = ';', 65 = 'A',    *)
(* 97 = 'a', 98 = 'b'), so Python's string order is the lexicographic      *)
(* order of the sequences.  A trie is a function from the path of a node   *)
(* (the string spelled from the root) to the node's fields; `children` is  *)
(* the list of the keys of the node's dict in insertion order.  `is_end`   *)
(* is no field of Node: remove_query writes it on the terminal node and    *)
(* reads it in its cleanup loop only; the model keeps it for the node      *)
(* written in the current call and treats a read on any other node as a    *)
(* choice among everything that read can lead to.                          *)
(***************************************************************************)
EXTENDS Integers, Sequences, FiniteSets, TLC

VARIABLES trie, reversed_trie, before, op, arg, ret, raised

vars == <<trie, reversed_trie, before, op, arg, ret, raised>>

(* ------------------------------ bounds --------------------------------- *)
MaxNodes == 2
MaxWeight == 2
MaxQueryLen == 3
MaxRawLen == 2
MaxK == 1

(* ------------------------------ strings -------------------------------- *)
KeyChars == {97, 98}

QueryChars == {32, 97}

RawChars == {32, 59, 65}

RECURSIVE StringsUpTo(_, _)
StringsUpTo(chars, n) ==
    IF n = 0 THEN {<<>>}
    ELSE LET shorter == StringsUpTo(chars, n - 1)
         IN  shorter \cup {Append(s, c) : s \in {x \in shorter : Len(x) = n - 1}, c \in chars}

Keys == StringsUpTo(KeyChars, MaxNodes)

Weights == 1..MaxWeight

Queries == StringsUpTo(QueryChars, MaxQueryLen)

RawQueries == StringsUpTo(RawChars, MaxRawLen)

DefaultK == 10

Ks == -1..MaxK

Reverse(s) == [i \in 1..Len(s) |-> s[Len(s) + 1 - i]]

StrLess(a, b) ==
    \E i \in 1..(Len(b)) :
        /\ \A j \in 1..(i - 1) : j <= Len(a) /\ a[j] = b[j]
        /\ (i > Len(a) \/ (i <= Len(a) /\ a[i] < b[i]))

PairLess(x, y) == x[1] < y[1] \/ (x[1] = y[1] /\ StrLess(x[2], y[2]))

RECURSIVE InsertDesc(_, _)
InsertDesc(sortedList, x) ==
    IF sortedList = <<>> THEN <<x>>
    ELSE IF PairLess(Head(sortedList), x) THEN <<x>> \o sortedList
    ELSE <<Head(sortedList)>> \o InsertDesc(Tail(sortedList), x)

SortedAscending(list) ==
    LET RECURSIVE Asc(_)
        Asc(l) == IF l = <<>> THEN <<>>
                  ELSE LET rest == Asc(Tail(l))
                           smaller == SelectSeq(rest, LAMBDA y : PairLess(y, Head(l)))
                           larger == SelectSeq(rest, LAMBDA y : ~PairLess(y, Head(l)))
                       IN  smaller \o <<Head(l)>> \o larger
    IN  Asc(list)

RECURSIVE SortedReverse(_)
SortedReverse(list) ==
    IF list = <<>> THEN <<>>
    ELSE InsertDesc(SortedReverse(Tail(list)), Head(list))

Elems(list) == {list[i] : i \in 1..Len(list)}

(* -------------------------------- Node --------------------------------- *)
Node == [children |-> <<>>, value |-> 0]

EmptyTrie == (<<>> :> Node)

HasChild(t, p, c) == \E i \in 1..Len(t[p].children) : t[p].children[i] = c

NodeCount(t) == Cardinality(DOMAIN t) - 1

(* -------------------------------- Trie --------------------------------- *)
RECURSIVE Walk(_, _, _)
Walk(t, query, i) ==
    IF i > Len(query) THEN t
    ELSE LET p == SubSeq(query, 1, i - 1)
             c == query[i]
             t1 == IF HasChild(t, p, c) THEN t
                   ELSE [t EXCEPT ![p].children = Append(@, c)] @@ (Append(p, c) :> Node)
         IN  Walk(t1, query, i + 1)

add_query_parent(t, query, value) ==
    LET t1 == Walk(t, query, 1)
    IN  [t1 EXCEPT ![SubSeq(query, 1, Len(query) - 1)].value = value]

add_query(t, query, value) == [Walk(t, query, 1) EXCEPT ![query].value = value]

WalkCreating(t, query) == Walk(t, query, 1)

WalkExisting(t, query) == t

PathExists(t, query) ==
    \A i \in 1..Len(query) : HasChild(t, SubSeq(query, 1, i - 1), query[i])

RemovePath(query) == <<<<>>>> \o [i \in 1..Len(query) |-> SubSeq(query, 1, i - 1)]

NodeView(t, p) ==
    {<<SubSeq(q, Len(p) + 1, Len(q)), t[q].value>> :
        q \in {x \in DOMAIN t : Len(x) >= Len(p) /\ SubSeq(x, 1, Len(p)) = p}}

NodeEq(t, p1, p2) == NodeView(t, p1) = NodeView(t, p2)

Cleanup(t, path, i, written) ==
    IF i < 1 THEN {"none"}
    ELSE IF t[path[i]].children # <<>> THEN {"none"}
    ELSE IF path[i] # written THEN {"AttributeError", "TypeError", "none"}
    ELSE IF ~NodeEq(t, path[i], <<>>) THEN {"TypeError"}
    ELSE {"none"}

remove_query_subtree(t, query) ==
    IF ~PathExists(t, query) THEN {[trie |-> t, raised |-> "Exception"]}
    ELSE LET keep == {p \in DOMAIN t : ~(Len(p) > Len(query) /\ SubSeq(p, 1, Len(query)) = query)}
             t1 == [p \in keep |-> IF p = query THEN [children |-> <<>>, value |-> 0] ELSE t[p]]
         IN  {[trie |-> t1, raised |-> "none"]}

remove_query(t, query) ==
    IF ~PathExists(t, query) THEN {[trie |-> t, raised |-> "Exception"]}
    ELSE LET t1 == [t EXCEPT ![query].value = 0]
             path == RemovePath(query)
         IN  {[trie |-> t1, raised |-> e] : e \in Cleanup(t1, path, Len(path), query)}

clear(t) == (<<>> :> [t[<<>>] EXCEPT !.children = <<>>])

RECURSIVE CollectSuffixes(_, _, _)
CollectSuffixes(t, current_suffix, i) ==
    IF i = 0
    THEN (IF t[current_suffix].value > 0
          THEN <<<<t[current_suffix].value, current_suffix>>>> ELSE <<>>)
         \o CollectSuffixes(t, current_suffix, 1)
    ELSE IF i > Len(t[current_suffix].children) THEN <<>>
    ELSE CollectSuffixes(t, Append(current_suffix, t[current_suffix].children[i]), 0)
         \o CollectSuffixes(t, current_suffix, i + 1)

suffixes(t, prefix) ==
    IF ~PathExists(t, prefix) THEN <<>>
    ELSE SortedReverse(CollectSuffixes(t, prefix, 0))

RECURSIVE CountRecursive(_, _, _)
CountRecursive(t, p, i) ==
    IF i = 0
    THEN (IF t[p].value > 0 THEN 1 ELSE 0) + CountRecursive(t, p, 1)
    ELSE IF i > Len(t[p].children) THEN 0
    ELSE CountRecursive(t, Append(p, t[p].children[i]), 0) + CountRecursive(t, p, i + 1)

count_queries(t) == CountRecursive(t, <<>>, 0)

(* ----------------------------- ReversedTrie ---------------------------- *)
reversed_add_query_forward(t, query, value) ==
    [Walk(t, query, 1) EXCEPT ![query].value = value]

reversed_add_query(t, query, value) ==
    LET reversed == Reverse(query)
    IN  [Walk(t, reversed, 1) EXCEPT ![reversed].value = value]

RECURSIVE find_end_of_suffix(_, _, _, _)
find_end_of_suffix(t, end_of_suffix, p, i) ==
    IF i > Len(t[p].children) THEN <<>>
    ELSE (IF HasChild(t, p, end_of_suffix) THEN <<Append(p, end_of_suffix)>> ELSE <<>>)
         \o find_end_of_suffix(t, end_of_suffix, Append(p, t[p].children[i]), 1)
         \o find_end_of_suffix(t, end_of_suffix, p, i + 1)

RECURSIVE dfs(_, _, _, _)
dfs(t, p, prefix, i) ==
    IF i = 0
    THEN (IF t[p].value > 0 THEN <<<<t[p].value, Reverse(prefix)>>>> ELSE <<>>)
         \o dfs(t, p, prefix, 1)
    ELSE IF i > Len(t[p].children) THEN <<>>
    ELSE dfs(t, Append(p, t[p].children[i]), Append(prefix, t[p].children[i]), 0)
         \o dfs(t, p, prefix, i + 1)

RECURSIVE DfsAll(_, _, _, _)
DfsAll(t, starting_nodes, suffix, n) ==
    IF n > Len(starting_nodes) THEN <<>>
    ELSE dfs(t, starting_nodes[n], <<suffix[Len(suffix)]>>, 0)
         \o DfsAll(t, starting_nodes, suffix, n + 1)

prefixes(t, suffix) ==
    LET end_of_suffix == IF suffix # <<>> THEN suffix[Len(suffix)] ELSE 0
        starting_nodes == find_end_of_suffix(t, end_of_suffix, <<>>, 1)
    IN  DfsAll(t, starting_nodes, suffix, 1)

(* ------------------------------ Suggester ------------------------------ *)
RECURSIVE fit(_, _)
fit(s, queries) ==
    IF queries = <<>> THEN s
    ELSE LET q == Head(queries)[1]
             v == Head(queries)[2]
         IN  fit([trie |-> add_query(s.trie, q, v),
                  reversed_trie |-> reversed_add_query(s.reversed_trie, q, v)],
                 Tail(queries))

suggester_count_queries(s) == count_queries(s.trie) + count_queries(s.reversed_trie)

suggest_query(s, query) ==
    LET suffix_suggestions == suffixes(s.trie, query)
        prefix_suggestions == prefixes(s.reversed_trie, Reverse(query))
        suggestions == Elems(suffix_suggestions \o prefix_suggestions)
    IN  suffix_suggestions

suggest_removed_char(s, query) ==
    IF Len(query) < 2 THEN <<>>
    ELSE suggest_query(s, SubSeq(query, 1, Len(query) - 1))

IsSpace(c) == c \in {9, 10, 11, 12, 13, 32}

RECURSIVE SplitFrom(_, _, _)
SplitFrom(query, i, word) ==
    IF i > Len(query) THEN (IF word = <<>> THEN <<>> ELSE <<word>>)
    ELSE IF IsSpace(query[i])
         THEN (IF word = <<>> THEN <<>> ELSE <<word>>) \o SplitFrom(query, i + 1, <<>>)
         ELSE SplitFrom(query, i + 1, Append(word, query[i]))

Split(query) == SplitFrom(query, 1, <<>>)

RECURSIVE ExtendEach(_, _, _)
ExtendEach(s, words, n) ==
    IF n > Len(words) THEN <<>>
    ELSE suggest_query(s, words[n]) \o ExtendEach(s, words, n + 1)

suggest_each_word(s, query) == ExtendEach(s, Split(query), 1)

(* --------------------------- the HTTP boundary ------------------------- *)
KeptChar(c) == c \in (48..57) \cup (65..90) \cup (97..122) \cup {32}

RECURSIVE CollapseSpaces(_)
CollapseSpaces(q) ==
    IF q = <<>> THEN <<>>
    ELSE IF IsSpace(Head(q))
         THEN IF Tail(q) # <<>> /\ IsSpace(Head(Tail(q)))
              THEN CollapseSpaces(Tail(q))
              ELSE <<32>> \o CollapseSpaces(Tail(q))
         ELSE <<Head(q)>> \o CollapseSpaces(Tail(q))

RECURSIVE Strip(_)
Strip(q) ==
    IF q = <<>> THEN <<>>
    ELSE IF IsSpace(Head(q)) THEN Strip(Tail(q))
    ELSE IF IsSpace(q[Len(q)]) THEN Strip(SubSeq(q, 1, Len(q) - 1))
    ELSE q

Lower(q) == [i \in 1..Len(q) |-> IF q[i] \in 65..90 THEN q[i] + 32 ELSE q[i]]

preprocess_query(query) == Lower(Strip(CollapseSpaces(SelectSeq(query, KeptChar))))

SliceInclusive(list, k) ==
    IF k >= 0 THEN SubSeq(list, 1, IF k + 1 < Len(list) THEN k + 1 ELSE Len(list))
    ELSE SubSeq(list, 1, Len(list) + k)

Slice(list, k) ==
    IF k >= 0 THEN SubSeq(list, 1, IF k < Len(list) THEN k ELSE Len(list))
    ELSE SubSeq(list, 1, Len(list) + k)

suggest(s, query, k) ==
    LET q == preprocess_query(query)
        suggestions == SortedReverse(<<>> \o suggest_query(s, q))
        top_k_suggestions == Slice(suggestions, k)
        formatted_suggestions == [i \in 1..Len(top_k_suggestions) |-> top_k_suggestions[i][2]]
    IN  [query |-> q, suggestions |-> formatted_suggestions]

(* ------------------------------ actions -------------------------------- *)
(* A call is made when no call is in progress (op = "idle"); it leaves the  *)
(* operation, its arguments, its result and the exception it raised in op,  *)
(* arg, ret and raised, and the suggester as it was at the call in before.  *)
(* Return hands the result back and forgets it.  A trie grows to at most    *)
(* MaxNodes nodes below the root.                                           *)
NoArg == [query |-> <<>>, value |-> 0, k |-> 0]

Snapshot == [trie |-> trie, reversed_trie |-> reversed_trie]

Init ==
    /\ trie = EmptyTrie
    /\ reversed_trie = EmptyTrie
    /\ before = [trie |-> EmptyTrie, reversed_trie |-> EmptyTrie]
    /\ op = "idle"
    /\ arg = NoArg
    /\ ret = <<>>
    /\ raised = "none"

TrieAdd ==
    \E query \in Keys, value \in Weights :
        /\ op = "idle"
        /\ NodeCount(add_query(trie, query, value)) <= MaxNodes
        /\ trie' = add_query(trie, query, value)
        /\ before' = Snapshot
        /\ op' = "add_query"
        /\ arg' = [NoArg EXCEPT !.query = query, !.value = value]
        /\ ret' = <<>>
        /\ raised' = "none"
        /\ UNCHANGED reversed_trie

TrieRemove ==
    \E query \in Keys :
        \E r \in remove_query(trie, query) :
            /\ op = "idle"
            /\ trie' = r.trie
            /\ before' = Snapshot
            /\ op' = "remove_query"
            /\ arg' = [NoArg EXCEPT !.query = query]
            /\ ret' = <<>>
            /\ raised' = r.raised
            /\ UNCHANGED reversed_trie

TrieClear ==
    /\ op = "idle"
    /\ trie' = clear(trie)
    /\ before' = Snapshot
    /\ op' = "clear"
    /\ arg' = NoArg
    /\ ret' = <<>>
    /\ raised' = "none"
    /\ UNCHANGED reversed_trie

TrieSuffixes ==
    \E prefix \in Keys :
        /\ op = "idle"
        /\ ret' = suffixes(trie, prefix)
        /\ before' = Snapshot
        /\ op' = "suffixes"
        /\ arg' = [NoArg EXCEPT !.query = prefix]
        /\ raised' = "none"
        /\ trie' = WalkExisting(trie, prefix)
        /\ UNCHANGED reversed_trie

TrieCount ==
    /\ op = "idle"
    /\ ret' = count_queries(trie)
    /\ before' = Snapshot
    /\ op' = "count_queries"
    /\ arg' = NoArg
    /\ raised' = "none"
    /\ UNCHANGED <<trie, reversed_trie>>

Return ==
    /\ op # "idle"
    /\ op' = "idle"
    /\ before' = Snapshot
    /\ arg' = NoArg
    /\ ret' = <<>>
    /\ raised' = "none"
    /\ UNCHANGED <<trie, reversed_trie>>

NextTrie == TrieAdd \/ TrieRemove \/ TrieClear \/ TrieSuffixes \/ TrieCount \/ Return

SpecTrie == Init /\ [][NextTrie]_vars

Entries == Keys \X Weights

(* fit walks the dict entry by entry, so a larger corpus is a succession of  *)
(* the calls below.                                                         *)
Corpora == {<<>>} \cup {<<x>> : x \in Entries}

Read(name, query, k, result) ==
    /\ op = "idle"
    /\ op' = name
    /\ arg' = [NoArg EXCEPT !.query = query, !.k = k]
    /\ ret' = result
    /\ raised' = "none"
    /\ before' = Snapshot
    /\ trie' = WalkExisting(trie, query)
    /\ reversed_trie' = WalkExisting(reversed_trie, Reverse(query))

Fit ==
    \E queries \in Corpora :
        LET s == fit(Snapshot, queries)
        IN  /\ op = "idle"
            /\ NodeCount(s.trie) <= MaxNodes
            /\ NodeCount(s.reversed_trie) <= MaxNodes
            /\ trie' = s.trie
            /\ reversed_trie' = s.reversed_trie
            /\ before' = Snapshot
            /\ op' = "fit"
            /\ arg' = [NoArg EXCEPT !.query = queries]
            /\ ret' = <<>>
            /\ raised' = "none"

Count == Read("count_queries", <<>>, 0, suggester_count_queries(Snapshot))

Prefixes == \E suffix \in Keys : Read("prefixes", suffix, 0, prefixes(reversed_trie, suffix))

SuggestQuery == \E query \in Keys : Read("suggest_query", query, 0, suggest_query(Snapshot, query))

SuggestRemovedChar ==
    \E query \in Keys :
        Read("suggest_removed_char", query, 0, suggest_removed_char(Snapshot, query))

SuggestEachWord ==
    \E query \in Queries :
        Read("suggest_each_word", query, 0, suggest_each_word(Snapshot, query))

Suggest ==
    \E query \in RawQueries, k \in Ks :
        Read("suggest", query, k, suggest(Snapshot, query, k))

Next ==
    \/ Fit
    \/ Count
    \/ Prefixes
    \/ SuggestQuery
    \/ SuggestRemovedChar
    \/ SuggestEachWord
    \/ Return

Spec == Init /\ [][Next]_vars

SuggestDefault ==
    \E query \in RawQueries :
        Read("suggest", query, DefaultK, suggest(Snapshot, query, DefaultK))

NextApi == Fit \/ Suggest \/ SuggestDefault \/ Return

SpecApi == Init /\ [][NextApi]_vars

NextReaders ==
    \/ Fit
    \/ TrieSuffixes
    \/ Prefixes
    \/ SuggestQuery
    \/ SuggestRemovedChar
    \/ SuggestEachWord
    \/ Suggest
    \/ Return

SpecReaders == Init /\ [][NextReaders]_vars

(* ------------------------ properties of the Trie ------------------------ *)
PrefixesOf(k) == {SubSeq(k, 1, i) : i \in 0..Len(k)}

Stored(t, k) == k \in DOMAIN t /\ t[k].value > 0

StoredKeys(t) == {k \in DOMAIN t : t[k].value > 0}

RECURSIVE LexGreater(_, _)
LexGreater(a, b) ==
    IF a = <<>> THEN FALSE
    ELSE IF b = <<>> THEN TRUE
    ELSE IF Head(a) # Head(b) THEN Head(a) > Head(b)
    ELSE LexGreater(Tail(a), Tail(b))

RankedBefore(x, y) == x[1] > y[1] \/ (x[1] = y[1] /\ LexGreater(x[2], y[2]))

(* C1: after add_query(k, w) with w > 0, suffixes(p) contains (w, k) for   *)
(* every prefix p of k, the empty prefix and k itself included.            *)
C1_InsertThenSuffixes ==
    op = "add_query" =>
        \A p \in PrefixesOf(arg.query) :
            <<arg.value, arg.query>> \in Elems(suffixes(trie, p))

C1_Witness ==
    /\ op = "add_query"
    /\ Len(arg.query) = 2
    /\ Stored(before.trie, SubSeq(arg.query, 1, 1))
    /\ before.trie[SubSeq(arg.query, 1, 1)].value # arg.value

(* C4: remove_query(k) on a key that is not stored raises the not-found    *)
(* exception, and suffixes and count_queries answer as before the call.    *)
C4_RemoveAbsentFails ==
    (op = "remove_query" /\ ~Stored(before.trie, arg.query)) =>
        /\ raised = "Exception"
        /\ \A p \in Keys : Elems(suffixes(trie, p)) = Elems(suffixes(before.trie, p))
        /\ count_queries(trie) = count_queries(before.trie)

(* C5: a successful remove_query(k) of a stored key takes (w, k) out of    *)
(* suffixes(p) for every prefix p of k, keeps every other stored pair in   *)
(* suffixes of all its prefixes, and lowers count_queries by exactly one.  *)
C5_RemoveFrame ==
    (op = "remove_query" /\ raised = "none" /\ Stored(before.trie, arg.query)) =>
        /\ \A p \in PrefixesOf(arg.query) :
              <<before.trie[arg.query].value, arg.query>> \notin Elems(suffixes(trie, p))
        /\ \A k \in StoredKeys(before.trie) \ {arg.query} :
              \A p \in PrefixesOf(k) :
                  <<before.trie[k].value, k>> \in Elems(suffixes(trie, p))
        /\ count_queries(trie) = count_queries(before.trie) - 1

C5_Witness ==
    /\ op = "remove_query"
    /\ raised = "none"
    /\ Stored(before.trie, arg.query)
    /\ \E k \in StoredKeys(before.trie) :
          Len(k) > Len(arg.query) /\ arg.query \in PrefixesOf(k)
    /\ \E k \in StoredKeys(before.trie) :
          Len(k) < Len(arg.query) /\ k \in PrefixesOf(arg.query)

(* C6: after clear(), count_queries is 0 and suffixes(p) is empty for      *)
(* every p, and an add_query on the cleared trie gives count_queries = 1.  *)
C6_ClearEmpties ==
    /\ op = "clear" =>
          /\ count_queries(trie) = 0
          /\ \A p \in Keys : suffixes(trie, p) = <<>>
    /\ (op = "add_query" /\ before.trie[<<>>].children = <<>>) =>
          count_queries(trie) = 1

(* C7: suffixes(p) is ordered by weight descending, equal weights by key   *)
(* descending; it is empty when the path of p does not exist, and holds    *)
(* every stored key that starts with p (no truncation).                    *)
C7_SuffixesSorted ==
    op = "suffixes" =>
        /\ \A i \in 1..Len(ret) : \A j \in (i + 1)..Len(ret) : RankedBefore(ret[i], ret[j])
        /\ arg.query \notin DOMAIN trie => ret = <<>>
        /\ Elems(ret) = {<<trie[k].value, k>> :
                            k \in {x \in StoredKeys(trie) : arg.query \in PrefixesOf(x)}}

C7_Witness ==
    /\ op = "suffixes"
    /\ Len(ret) = 3
    /\ \E i \in 1..2 : ret[i][1] = ret[i + 1][1]
    /\ ret[1][1] # ret[3][1]

(* ---------------- properties of ReversedTrie and Suggester -------------- *)
NoRepeat(list) == \A i \in 1..Len(list) : \A j \in (i + 1)..Len(list) : list[i] # list[j]

StartsWith(k, q) == Len(q) <= Len(k) /\ SubSeq(k, 1, Len(q)) = q

EndsWith(k, q) == Len(q) <= Len(k) /\ SubSeq(k, Len(k) - Len(q) + 1, Len(k)) = q

OriginalKeys(t) == {Reverse(r) : r \in StoredKeys(t)}

Occurrences(k, fragment) ==
    {i \in 1..(Len(k) - Len(fragment) + 1) : SubSeq(k, i, i + Len(fragment) - 1) = fragment}

(* C2: suggest_query(q) returns, without repeating a pair, the forward     *)
(* completions and the backward completions: every stored key that starts  *)
(* with q or ends with q is in the result with its weight.                 *)
C2_SuggestIsUnion ==
    op = "suggest_query" =>
        /\ NoRepeat(ret)
        /\ \A k \in StoredKeys(trie) :
              (StartsWith(k, arg.query) \/ EndsWith(k, arg.query)) =>
                  <<trie[k].value, k>> \in Elems(ret)

(* C3: for a non-empty fragment, prefixes(fragment) holds a pair (w, P)    *)
(* exactly for the stored keys K of weight w that contain fragment, P      *)
(* being K up through the end of the occurrence.                           *)
C3_PrefixesSubstring ==
    (op = "prefixes" /\ arg.query # <<>>) =>
        Elems(ret) =
            UNION {{<<reversed_trie[Reverse(k)].value, SubSeq(k, 1, i + Len(arg.query) - 1)>> :
                       i \in Occurrences(k, arg.query)} :
                   k \in OriginalKeys(reversed_trie)}

(* C8: for k >= 0 the endpoint returns min(k, n) strings, the i-th being   *)
(* the string of the candidate of suggest_query(normalized query) that     *)
(* exactly i - 1 candidates outrank (weight descending, then string        *)
(* descending); k = 0 gives the empty list and an omitted k counts as 10.  *)
C8_TopK ==
    (op = "suggest" /\ arg.k >= 0) =>
        LET candidates == Elems(suggest_query(Snapshot, ret.query))
            n == Cardinality(candidates)
            Rank(c) == Cardinality({d \in candidates : RankedBefore(d, c)}) + 1
        IN  /\ Len(ret.suggestions) = (IF arg.k < n THEN arg.k ELSE n)
            /\ Len(ret.suggestions) <= arg.k
            /\ \A i \in 1..Len(ret.suggestions) :
                  \E c \in candidates : Rank(c) = i /\ ret.suggestions[i] = c[2]

C8_Witness ==
    /\ op = "suggest"
    /\ arg.k = 1
    /\ arg.query # ret.query
    /\ Len(suggest_query(Snapshot, ret.query)) = 2
    /\ Len(ret.suggestions) = 1

(* C9: a request with a negative k is rejected with an invalid-argument    *)
(* error and returns no list of suggestions.                               *)
C9_NegativeKRejected ==
    (op = "suggest" /\ arg.k < 0) => raised = "InvalidArgument"

(* C10: suggest_query, suggest_removed_char and suggest_each_word return   *)
(* lists in which no (weight, string) pair occurs twice.                   *)
C10_NoDuplicatePairs ==
    op \in {"suggest_query", "suggest_removed_char", "suggest_each_word"} => NoRepeat(ret)

(* C11: for a query that is empty or normalizes to the empty string the    *)
(* endpoint returns an empty list of suggestions, whatever was fitted.     *)
C11_EmptyQueryEmptyList ==
    (op = "suggest" /\ ret.query = <<>>) => ret.suggestions = <<>>

(* C12: suffixes, prefixes, suggest_query, suggest_removed_char,           *)
(* suggest_each_word and the endpoint leave both tries exactly as they     *)
(* were, also when the queried path does not exist, so the same call made  *)
(* again (or after any other of them) returns the same result.             *)
ReaderOps ==
    {"suffixes", "prefixes", "suggest_query", "suggest_removed_char",
     "suggest_each_word", "suggest"}

Again ==
    CASE op = "suffixes" -> suffixes(trie, arg.query)
      [] op = "prefixes" -> prefixes(reversed_trie, arg.query)
      [] op = "suggest_query" -> suggest_query(Snapshot, arg.query)
      [] op = "suggest_removed_char" -> suggest_removed_char(Snapshot, arg.query)
      [] op = "suggest_each_word" -> suggest_each_word(Snapshot, arg.query)
      [] op = "suggest" -> suggest(Snapshot, arg.query, arg.k)

ValueAt(t, k) == IF k \in DOMAIN t THEN t[k].value ELSE 0

C13_TriesAgree ==
    /\ \A k \in Keys : ValueAt(trie, k) = ValueAt(reversed_trie, Reverse(k))
    /\ op = "fit" =>
          /\ \A i \in 1..Len(arg.query) :
                ValueAt(trie, arg.query[i][1]) = arg.query[i][2]
          /\ StoredKeys(trie) =
                StoredKeys(before.trie) \cup {arg.query[i][1] : i \in 1..Len(arg.query)}
    /\ op = "count_queries" => ret = 2 * Cardinality(StoredKeys(trie))

C13_Witness ==
    /\ op = "fit"
    /\ Len(arg.query) = 1
    /\ Reverse(arg.query[1][1]) # arg.query[1][1]
    /\ Stored(before.trie, arg.query[1][1])
    /\ before.trie[arg.query[1][1]].value # arg.query[1][2]
    /\ Cardinality(StoredKeys(trie)) = 2

(* C14: no node other than the root has both no children and a weight of   *)
(* 0: remove_query detaches the terminal node and every ancestor left      *)
(* without children and without a positive weight.                         *)
C14_NoEmptyLeaf ==
    \A p \in DOMAIN trie \ {<<>>} :
        ~(trie[p].children = <<>> /\ trie[p].value = 0)

====
